---- MODULE Spec2Model ----
(***************************************************************************)
(* State-machine model of the Entrolytics Svelte bridge (src/src/index.ts):*)
(* script injection by initEntrolytics, the polling wait of waitForTracker,*)
(* the forwarding functions, setTag, the trackClick action and the         *)
(* usePageView watcher.                                                    *)
(*                                                                         *)
(* JavaScript values are rendered as follows.  An optional value           *)
(* (undefined / null or a value) is a sequence of length at most one:      *)
(* <<>> is undefined/null and <<v>> is v.  An object is a function from    *)
(* its keys to its values; an absent key is absent from the DOMAIN.  All   *)
(* leaf values are strings (amounts included: the bridge never computes    *)
(* with them).  A URL host is a sequence of chunks in which a slash is a   *)
(* chunk of its own, so that the trailing-slash strip is computed.         *)
(***************************************************************************)
EXTENDS Integers, Sequences, FiniteSets, TLC

\* ------------------------------------------------------------------ bounds
MaxInits == 2      \* initEntrolytics calls per execution
MaxCalls == 1      \* tracking / identification calls per execution
MaxTicks == 2      \* retry ticks of one call while the tracker is absent
MaxEmissions == 3  \* emissions of the navigation source per execution
MaxClicks == 2     \* clicks on the element carrying the trackClick action
MaxOrderCalls == 2 \* tracking calls per execution of the ordering scenario

\* --------------------------------------------------------------- constants
DEFAULT_HOST == <<"https://cloud.entrolytics.click">>
SCRIPT_ID == "entrolytics-script"

VARIABLES
  hasWindow,       \* typeof window !== 'undefined'
  tracker,         \* window.entrolytics is installed
  document,        \* the script elements of the document, in append order
  isLoaded,        \* store isLoaded
  isReady,         \* store isReady
  initialized,     \* module variable initialized
  currentOptions,  \* module variable currentOptions (<<>> is null)
  currentTag,      \* module variable currentTag (<<>> is undefined)
  calls,           \* every tracking call issued so far, by call id
  sent,            \* the invocations received by window.entrolytics, in order
  lastPath,        \* usePageView: closure variable lastPath
  watcher,         \* usePageView: "idle", "registered", "subscribed", "destroyed"
  pagePath,        \* the navigation store's current pathname
  lastInit,        \* history: the most recent initEntrolytics call (the n-th)
  loadFlips,       \* history: number of false -> true changes of isLoaded
  emission,        \* history: the most recent emission seen by the watcher
  subscription,    \* the watcher's subscription to the navigation source
  unobserved,      \* history: emissions of the source after the teardown
  listeners,       \* trackClick: click listeners of the action on its node
  params,          \* trackClick: closure variable params (<<>> before use)
  action,          \* trackClick: "idle", "attached", "destroyed"
  supplied,        \* history: the params last handed to trackClick / update
  click            \* history: the most recent click on the node

envVars == <<hasWindow, tracker, document>>
storeVars == <<isLoaded, isReady, loadFlips>>
moduleVars == <<initialized, currentOptions, currentTag>>
callVars == <<calls, sent>>
watchVars == <<lastPath, watcher, pagePath, emission, subscription,
               unobserved>>
clickVars == <<listeners, params, action, supplied, click>>
vars == <<hasWindow, tracker, document, isLoaded, isReady, initialized,
          currentOptions, currentTag, calls, sent, lastPath, watcher,
          pagePath, lastInit, loadFlips, emission, subscription,
          unobserved, listeners, params, action, supplied, click>>

\* ------------------------------------------------------- JavaScript values
Null == <<>>
Some(x) == <<x>>
EmptyObj == [k \in {} |-> ""]

\* options.k with a destructuring default d
Get(o, k, d) == IF k \in DOMAIN o THEN o[k] ELSE d

\* JavaScript truthiness of an optional string: undefined and '' are falsy
Truthy(s) == s # Null /\ s[1] # ""

\* { ...a, ...b }: the keys of b win
Spread(a, b) == b @@ a

\* ...data for an optional object: spreading undefined adds nothing
ObjOf(data) == IF data = Null THEN EmptyObj ELSE data[1]

\* Array.prototype.join
RECURSIVE Join(_, _)
Join(s, sep) ==
  IF s = <<>> THEN ""
  ELSE IF Len(s) = 1 THEN s[1]
  ELSE s[1] \o sep \o Join(Tail(s), sep)

\* host.replace(/\/$/, ''): one trailing slash is removed
StripTrailingSlash_None(h) == h
StripTrailingSlash(h) ==
  IF Len(h) > 0 /\ h[Len(h)] = "/" THEN SubSeq(h, 1, Len(h) - 1) ELSE h

\* ----------------------------------------------------------- input domains
\* The configurations passed to initEntrolytics.
Configs ==
  { [websiteId |-> "w1"],
    [websiteId |-> "w2", tag |-> "ab1", beforeSend |-> "fn"],
    [websiteId |-> "", tag |-> "ab2"],
    [host |-> <<"https://self.example", "/">>],
    [websiteId |-> "w3", host |-> <<"https://self.example", "/">>,
     autoTrack |-> FALSE, respectDnt |-> TRUE,
     domains |-> <<"a.com", "b.com">>, useEdgeRuntime |-> FALSE,
     tag |-> "ab1", excludeSearch |-> TRUE, excludeHash |-> TRUE],
    [websiteId |-> "w4", host |-> <<"https://self.example", "/", "/">>,
     autoTrack |-> TRUE, respectDnt |-> FALSE, domains |-> <<>>,
     useEdgeRuntime |-> TRUE, tag |-> "", excludeSearch |-> FALSE,
     excludeHash |-> FALSE, beforeSend |-> "fn"] }

\* The tags passed to setTag.
Tags == {"", "ab-variant-2", "ab-variant-3"}

\* A script element with the bridge's id that the page already holds.
PreExistingScript ==
  [id |-> SCRIPT_ID, src |-> <<"https://cdn.example", "/script.js">>,
   defer |-> FALSE, dataset |-> ("websiteId" :> "w0"),
   onload |-> FALSE, fired |-> FALSE]

\* -------------------------------------------------------------- the stores
\* writable.set(true) on a store holding v: one more false -> true change
\* exactly when the store held false.
StoreSetTrue ==
  /\ isLoaded' = TRUE
  /\ isReady' = TRUE
  /\ loadFlips' = IF isLoaded THEN loadFlips ELSE loadFlips + 1

\* history: the number of elements of doc that carry the bridge's id
ScriptCount(doc) == Cardinality({i \in 1..Len(doc) : doc[i].id = SCRIPT_ID})

\* ---------------------------------------------------------- initEntrolytics
\* if (initialized) return;
AlreadyInitialized_Never == FALSE
AlreadyInitialized == initialized

\* if (!websiteId)
WebsiteIdMissing_Never(options) == FALSE
WebsiteIdMissing(options) == Get(options, "websiteId", "") = ""

\* document.getElementById(SCRIPT_ID)
GetElementById_Never(doc, id) == FALSE
GetElementById(doc, id) == \E i \in 1..Len(doc) : doc[i].id = id

\* the optional data attributes of the injected script element
DataAttributes(options) ==
  LET domains == Get(options, "domains", <<>>)
      tag == Get(options, "tag", "")
  IN  (IF ~Get(options, "autoTrack", TRUE)
         THEN ("autoTrack" :> "false") ELSE EmptyObj)
      @@ (IF Get(options, "respectDnt", FALSE)
            THEN ("doNotTrack" :> "true") ELSE EmptyObj)
      @@ (IF Len(domains) > 0
            THEN ("domains" :> Join(domains, ",")) ELSE EmptyObj)
      @@ (IF tag # "" THEN ("tag" :> tag) ELSE EmptyObj)
      @@ (IF Get(options, "excludeSearch", FALSE)
            THEN ("excludeSearch" :> "true") ELSE EmptyObj)
      @@ (IF Get(options, "excludeHash", FALSE)
            THEN ("excludeHash" :> "true") ELSE EmptyObj)

\* the script element built by initEntrolytics
CreateScript(options) ==
  LET host == Get(options, "host", DEFAULT_HOST)
      scriptPath == IF Get(options, "useEdgeRuntime", TRUE)
                      THEN "/script-edge.js" ELSE "/script.js"
  IN  [id |-> SCRIPT_ID,
       src |-> StripTrailingSlash(host) \o <<scriptPath>>,
       defer |-> TRUE,
       dataset |-> ("websiteId" :> Get(options, "websiteId", "undefined"))
                   @@ DataAttributes(options),
       onload |-> TRUE,
       fired |-> FALSE]

\* history: the call being made, the state it finds and what it raises
InitRecord(options, raises) ==
  [n |-> lastInit.n + 1, options |-> options, browser |-> hasWindow,
   wasInitialized |-> initialized, hadScript |-> ScriptCount(document) > 0,
   raised |-> raises]

InitEntrolytics(options) ==
  /\ lastInit.n < MaxInits
  /\ UNCHANGED <<hasWindow, tracker, callVars, watchVars, clickVars>>
  /\ IF ~hasWindow \/ AlreadyInitialized
       THEN /\ lastInit' = InitRecord(options, "none")
            /\ UNCHANGED <<moduleVars, storeVars, document>>
       ELSE /\ initialized' = TRUE
            /\ currentOptions' = Some(options)
            /\ currentTag' = IF "tag" \in DOMAIN options
                               THEN Some(options.tag) ELSE Null
            /\ IF WebsiteIdMissing(options)
                 THEN /\ lastInit' = InitRecord(options, "ConfigError")
                      /\ UNCHANGED <<storeVars, document>>
                 ELSE /\ lastInit' = InitRecord(options, "none")
                      /\ IF GetElementById(document, SCRIPT_ID)
                           THEN /\ StoreSetTrue
                                /\ UNCHANGED document
                           ELSE /\ document' =
                                     Append(document, CreateScript(options))
                                /\ UNCHANGED storeVars

\* script.onload: the load event of the injected element fires (once)
ScriptOnload(i) ==
  /\ i \in 1..Len(document)
  /\ document[i].onload
  /\ ~document[i].fired
  /\ document' = [document EXCEPT ![i].fired = TRUE]
  /\ StoreSetTrue
  /\ UNCHANGED <<hasWindow, tracker, moduleVars, callVars, watchVars,
                 clickVars, lastInit>>

\* ------------------------------------------------------------------ setTag
SetTag(tag) ==
  /\ currentTag' = Some(tag)
  /\ UNCHANGED <<envVars, storeVars, initialized, currentOptions, callVars,
                 watchVars, clickVars, lastInit>>

\* ------------------------------------------------------------- environment
\* the remote script (or the page) installs window.entrolytics
InstallTracker ==
  /\ hasWindow
  /\ ~tracker
  /\ tracker' = TRUE
  /\ UNCHANGED <<hasWindow, document, storeVars, moduleVars, callVars,
                 watchVars, clickVars, lastInit>>

\* ---------------------------------------------------------- waitForTracker
\* What a beforeSend transform may do with the payload it is given.
BeforeSendResults == {"null", "undefined", "same", "mutData", "mutName", "new"}

\* currentOptions?.beforeSend
HasBeforeSend ==
  currentOptions # Null /\ "beforeSend" \in DOMAIN currentOptions[1]

\* currentOptions.beforeSend('event', payload) for a transform behaving as b:
\* ret is the kind of value returned, payload the object returned (when one
\* is), eventData the caller's eventData afterwards (payload.data is the same
\* object as eventData, so a mutation in place of payload.data shows in it).
BeforeSend(b, payload) ==
  LET extra == ("extra" :> "1")
  IN  CASE b = "null" ->
             [ret |-> "null", payload |-> payload, eventData |-> payload.data]
        [] b = "undefined" ->
             [ret |-> "undefined", payload |-> payload,
              eventData |-> payload.data]
        [] b = "same" ->
             [ret |-> "object", payload |-> payload,
              eventData |-> payload.data]
        [] b = "mutData" ->
             IF payload.data = Null
               THEN [ret |-> "object",
                     payload |-> [payload EXCEPT !.data = Some(extra)],
                     eventData |-> Null]
               ELSE [ret |-> "object",
                     payload |-> [payload EXCEPT
                                    !.data = Some(Spread(@[1], extra))],
                     eventData |-> Some(Spread(payload.data[1], extra))]
        [] b = "mutName" ->
             [ret |-> "object",
              payload |-> [payload EXCEPT !.name = "renamed"],
              eventData |-> payload.data]
        [] b = "new" ->
             [ret |-> "object",
              payload |-> [name |-> "renamed", data |-> Some(extra)],
              eventData |-> payload.data]

\* if (payload === null) return;
BeforeSendCancels_Never(r) == FALSE
BeforeSendCancels(r) == r.ret = "null"

\* The outcome of a callback: out is what it passes to window.entrolytics
\* (at most one invocation), threw whether it raised, bs what the transform
\* did ("none": no transform ran), xf the payload the transform returned.
Outcome(out, threw, bs, xf) ==
  [out |-> out, threw |-> threw, bs |-> bs, xf |-> xf]

Invocation(fn, form, name, obj) ==
  [fn |-> fn, form |-> form, name |-> name, obj |-> obj]

\* the callback of trackEvent
TrackEventCallback(a, b) ==
  LET payload == [name |-> a.name, data |-> a.data]
      r == IF HasBeforeSend
             THEN BeforeSend(b, payload)
             ELSE [ret |-> "object", payload |-> payload, eventData |-> a.data]
      bs == IF HasBeforeSend THEN b ELSE "none"
      xf == IF r.ret = "object" THEN Some(r.payload) ELSE Null
  IN  IF HasBeforeSend /\ BeforeSendCancels(r)
        THEN Outcome(<<>>, FALSE, bs, xf)
      ELSE IF Truthy(currentTag) /\ r.ret # "object"
        \* (payload as Record<string, unknown>).tag = currentTag on
        \* undefined (or null): TypeError
        THEN Outcome(<<>>, TRUE, bs, xf)
      ELSE \* payload.tag is set on the payload, which is not what is sent
           Outcome(<<Invocation("track", "positional", Some(a.name),
                                r.eventData)>>, FALSE, bs, xf)

\* if (currentTag) eventData.tag = currentTag
AttachTag(obj) ==
  IF Truthy(currentTag) THEN Spread(obj, "tag" :> currentTag[1]) ELSE obj

\* { ...data, revenue, currency }
RevenueData_DataWins(a) ==
  Spread("revenue" :> a.revenue @@ "currency" :> a.currency, ObjOf(a.data))
RevenueData(a) ==
  Spread(ObjOf(a.data), "revenue" :> a.revenue @@ "currency" :> a.currency)

\* the callback of trackRevenue
TrackRevenueCallback(a) ==
  LET eventData == RevenueData(a)
  IN  Outcome(<<Invocation("track", "positional", Some(a.name),
                           Some(AttachTag(eventData)))>>, FALSE, "none", Null)

\* the callback of trackOutboundLink
TrackOutboundLinkCallback(a) ==
  Outcome(<<Invocation("track", "positional", Some("outbound-link-click"),
                       Some(Spread(ObjOf(a.data), "url" :> a.url)))>>,
          FALSE, "none", Null)

\* the callback of identify
IdentifyCallback(a) ==
  Outcome(<<Invocation("identify", "object", Null, Some(a.data))>>,
          FALSE, "none", Null)

\* the callback of identifyUser
IdentifyUserCallback(a) ==
  Outcome(<<Invocation("identify", "object", Null,
                       Some(Spread("id" :> a.userId, ObjOf(a.traits))))>>,
          FALSE, "none", Null)

\* the callback of trackPageView
TrackPageViewCallback(a) ==
  LET url == IF Truthy(a.url) THEN ("url" :> a.url[1]) ELSE EmptyObj
      referrer == IF Truthy(a.referrer)
                    THEN ("referrer" :> a.referrer[1]) ELSE EmptyObj
  IN  Outcome(<<Invocation("track", "object", Null,
                           Some(AttachTag(Spread(url, referrer))))>>,
              FALSE, "none", Null)

Callback(call, b) ==
  CASE call.kind = "trackEvent" -> TrackEventCallback(call.args, b)
    [] call.kind = "trackRevenue" -> TrackRevenueCallback(call.args)
    [] call.kind = "trackOutboundLink" -> TrackOutboundLinkCallback(call.args)
    [] call.kind = "identify" -> IdentifyCallback(call.args)
    [] call.kind = "identifyUser" -> IdentifyUserCallback(call.args)
    [] call.kind = "trackPageView" -> TrackPageViewCallback(call.args)

\* setTimeout(tryExecute, 100): the call waits for its next tick
Reschedule_GiveUp(call) == [call EXCEPT !.status = "dropped"]
Reschedule(call) == [call EXCEPT !.status = "pending"]

\* if (window.entrolytics)
TrackerPresent_Always == TRUE
TrackerPresent == tracker

\* if (typeof window === 'undefined') return;
WindowUndefined_Never == FALSE
WindowUndefined == ~hasWindow

\* tryExecute of call id: the callback runs when the tracker is there, and
\* otherwise the call is rescheduled.  newCalls is calls with call at id.
TryExecute(id, call, newCalls, b) ==
  IF TrackerPresent
    THEN LET r == Callback(call, b)
         IN  /\ calls' = [newCalls EXCEPT
                            ![id] = [call EXCEPT !.status = "done",
                                       !.bs = r.bs, !.xf = r.xf,
                                       !.threw = r.threw]]
             /\ sent' = sent \o [i \in 1..Len(r.out) |->
                                   [id |-> id, inv |-> r.out[i]]]
    ELSE /\ calls' = [newCalls EXCEPT ![id] = Reschedule(call)]
         /\ UNCHANGED sent

\* a public tracking function: waitForTracker(callback), in an execution
\* that makes at most limit tracking calls
WaitForTrackerWithin(limit, kind, args) ==
  /\ Len(calls) < limit
  /\ \E b \in BeforeSendResults :
       LET id == Len(calls) + 1
           call == [kind |-> kind, args |-> args, issueTag |-> currentTag,
                    status |-> "issued", ticks |-> 0, bs |-> "none",
                    xf |-> Null, threw |-> FALSE]
       IN  /\ IF WindowUndefined
                THEN /\ calls' = Append(calls,
                                        [call EXCEPT !.status = "dropped"])
                     /\ UNCHANGED sent
                ELSE TryExecute(id, call, Append(calls, call), b)
  /\ UNCHANGED <<envVars, storeVars, moduleVars, lastInit>>

WaitForTracker(kind, args) == WaitForTrackerWithin(MaxCalls, kind, args)

\* a retry tick of call id: the timer set by tryExecute fires
Tick(id) ==
  /\ id \in 1..Len(calls)
  /\ calls[id].status = "pending"
  /\ tracker \/ calls[id].ticks < MaxTicks
  /\ \E b \in BeforeSendResults :
       TryExecute(id, [calls[id] EXCEPT !.ticks = @ + 1], calls, b)
  /\ UNCHANGED <<envVars, storeVars, moduleVars, watchVars, clickVars,
                 lastInit>>

\* ------------------------------------------------- the forwarding functions
TrackEvent(eventName, eventData) ==
  /\ WaitForTracker("trackEvent", [name |-> eventName, data |-> eventData])
  /\ UNCHANGED <<watchVars, clickVars>>

\* currency = 'USD' stands for an omitted currency; given keeps the currency
\* argument as the caller passed it
TrackRevenue(eventName, revenue, currency, data) ==
  /\ WaitForTracker("trackRevenue",
       [name |-> eventName, revenue |-> revenue,
        currency |-> IF currency = Null THEN "USD" ELSE currency[1],
        given |-> currency, data |-> data])
  /\ UNCHANGED <<watchVars, clickVars>>

TrackOutboundLink(url, data) ==
  /\ WaitForTracker("trackOutboundLink", [url |-> url, data |-> data])
  /\ UNCHANGED <<watchVars, clickVars>>

Identify(data) ==
  /\ WaitForTracker("identify", [data |-> data])
  /\ UNCHANGED <<watchVars, clickVars>>

IdentifyUser(userId, traits) ==
  /\ WaitForTracker("identifyUser", [userId |-> userId, traits |-> traits])
  /\ UNCHANGED <<watchVars, clickVars>>

TrackPageView(url, referrer) ==
  /\ WaitForTracker("trackPageView", [url |-> url, referrer |-> referrer])
  /\ UNCHANGED <<watchVars, clickVars>>

\* -------------------------------------------------------------- usePageView
\* usePageView(pageStore): lastPath = '' and the onMount callback registered
UsePageView ==
  /\ watcher = "idle"
  /\ watcher' = "registered"
  /\ lastPath' = ""
  /\ UNCHANGED <<envVars, storeVars, moduleVars, callVars, pagePath,
                 emission, subscription, unobserved, clickVars, lastInit>>

\* const unsubscribe = pageStore.subscribe(...)
Subscribe(s) ==
  [s EXCEPT !.active = @ + 1, !.subscribes = @ + 1]

\* return unsubscribe: the function the teardown of the scope runs
Unsubscribe_Dangling(s) == s
Unsubscribe(s) ==
  [s EXCEPT !.active = @ - 1, !.unsubscribes = @ + 1]

\* the onMount callback: pageStore.subscribe(...)
Mount ==
  /\ watcher = "registered"
  /\ hasWindow
  /\ watcher' = "subscribed"
  /\ subscription' = Subscribe(subscription)
  /\ UNCHANGED <<envVars, storeVars, moduleVars, callVars, lastPath,
                 pagePath, emission, unobserved, clickVars, lastInit>>

\* if (lastPath !== '') after lastPath = currentPath
NotFirstPath(before, after) == after # ""

\* the navigation source emits a page whose url.pathname is currentPath
\* while the watcher's subscriber is subscribed: the subscriber runs
Emit(currentPath) ==
  /\ subscription.active > 0
  /\ emission.n < MaxEmissions
  /\ pagePath' = currentPath
  /\ UNCHANGED <<watcher, subscription, unobserved, clickVars>>
  /\ IF currentPath # lastPath
       THEN /\ lastPath' = currentPath
            /\ IF NotFirstPath(lastPath, lastPath')
                 THEN /\ WaitForTracker("trackPageView",
                           [url |-> Some(currentPath), referrer |-> Null])
                      /\ emission' = [n |-> emission.n + 1,
                                      path |-> currentPath,
                                      prev |-> lastPath,
                                      issued |-> <<Some(currentPath)>>]
                 ELSE /\ emission' = [n |-> emission.n + 1,
                                      path |-> currentPath,
                                      prev |-> lastPath, issued |-> <<>>]
                      /\ UNCHANGED <<envVars, storeVars, moduleVars,
                                     callVars, lastInit>>
       ELSE /\ emission' = [n |-> emission.n + 1, path |-> currentPath,
                            prev |-> lastPath, issued |-> <<>>]
            /\ UNCHANGED <<envVars, storeVars, moduleVars, callVars,
                           lastPath, lastInit>>

\* the navigation source emits while the watcher's subscriber is not
\* subscribed: nothing of the bridge runs
EmitUnobserved(currentPath) ==
  /\ subscription.active = 0
  /\ watcher = "destroyed" => unobserved < MaxEmissions
  /\ pagePath' = currentPath
  /\ unobserved' = IF watcher = "destroyed" THEN unobserved + 1
                                            ELSE unobserved
  /\ UNCHANGED <<envVars, storeVars, moduleVars, callVars, lastPath,
                 watcher, emission, subscription, clickVars, lastInit>>

\* the owning scope is torn down: the function returned by the onMount
\* callback (unsubscribe) runs
Destroy ==
  /\ watcher = "subscribed"
  /\ watcher' = "destroyed"
  /\ subscription' = Unsubscribe(subscription)
  /\ UNCHANGED <<envVars, storeVars, moduleVars, callVars, lastPath,
                 pagePath, emission, unobserved, clickVars, lastInit>>

\* -------------------------------------------------------------- trackClick
\* trackClick(node, params): node.addEventListener('click', handleClick)
AddEventListener(n) == n + 1

\* destroy(): node.removeEventListener('click', handleClick)
RemoveEventListener_Leak(n) == n
RemoveEventListener(n) == IF n > 0 THEN n - 1 ELSE 0

\* update(newParams): params = newParams
UpdateParams_Stale(old, new) == old
UpdateParams(old, new) == Some(new)

\* the action is attached to its node
TrackClick(p) ==
  /\ hasWindow
  /\ action = "idle"
  /\ action' = "attached"
  /\ params' = Some(p)
  /\ listeners' = AddEventListener(listeners)
  /\ supplied' = [params |-> Some(p), updated |-> FALSE]
  /\ UNCHANGED <<envVars, storeVars, moduleVars, callVars, watchVars,
                 click, lastInit>>

\* update(newParams) of the attached action
Update(newParams) ==
  /\ action = "attached"
  /\ params' = UpdateParams(params, newParams)
  /\ supplied' = [params |-> Some(newParams), updated |-> TRUE]
  /\ UNCHANGED <<envVars, storeVars, moduleVars, callVars, watchVars,
                 listeners, action, click, lastInit>>

\* destroy() of the attached action
DestroyAction ==
  /\ action = "attached"
  /\ action' = "destroyed"
  /\ listeners' = RemoveEventListener(listeners)
  /\ UNCHANGED <<envVars, storeVars, moduleVars, callVars, watchVars,
                 params, supplied, click, lastInit>>

\* handleClick: trackEvent(params.event, params.data)
HandleClickArgs == [name |-> params[1].event, data |-> params[1].data]

\* the user clicks the node: every click listener on it runs (the action
\* never has more than one)
Click ==
  /\ click.n < MaxClicks
  /\ UNCHANGED <<watchVars, listeners, params, action, supplied>>
  /\ IF listeners > 0
       THEN /\ WaitForTracker("trackEvent", HandleClickArgs)
            /\ click' = [n |-> click.n + 1, action |-> action,
                         supplied |-> supplied,
                         invoked |-> <<HandleClickArgs>>]
       ELSE /\ click' = [n |-> click.n + 1, action |-> action,
                         supplied |-> supplied, invoked |-> <<>>]
            /\ UNCHANGED <<envVars, storeVars, moduleVars, callVars,
                           lastInit>>

\* ------------------------------------------------------------ initial state
Init ==
  /\ hasWindow \in BOOLEAN
  /\ tracker = FALSE
  /\ document \in {<<>>, <<PreExistingScript>>}
  /\ (~hasWindow => document = <<>>)
  /\ isLoaded = FALSE
  /\ isReady = FALSE
  /\ initialized = FALSE
  /\ currentOptions = Null
  /\ currentTag = Null
  /\ calls = <<>>
  /\ sent = <<>>
  /\ lastPath = ""
  /\ watcher = "idle"
  /\ pagePath = "/"
  /\ lastInit = [n |-> 0]
  /\ loadFlips = 0
  /\ emission = [n |-> 0]
  /\ subscription = [active |-> 0, subscribes |-> 0, unsubscribes |-> 0]
  /\ unobserved = 0
  /\ listeners = 0
  /\ params = Null
  /\ action = "idle"
  /\ supplied = [params |-> Null, updated |-> FALSE]
  /\ click = [n |-> 0]

\* ------------------------------------------------- initialization behaviour
NextInit ==
  \/ \E options \in Configs : InitEntrolytics(options)
  \/ \E i \in 1..Len(document) : ScriptOnload(i)
  \/ \E tag \in Tags : SetTag(tag)
  \/ InstallTracker

SpecInit == Init /\ [][NextInit]_vars

\* ------------------------------------------------------ tracking behaviour
\* A browser page that holds no script element with the bridge's id.
InitBrowser == Init /\ hasWindow /\ document = <<>>

\* The arguments of the tracking calls.
EventDatas == {Null, Some("variant" :> "hero")}
PlainConfig == [websiteId |-> "w1"]
TaggedConfig == [websiteId |-> "w1", tag |-> "ab1"]
TransformConfig == [websiteId |-> "w2", beforeSend |-> "fn"]
TaggedTransformConfig ==
  [websiteId |-> "w3", tag |-> "ab1", beforeSend |-> "fn"]
TrackTags == {"", "ab-variant-2"}

\* Polling: every forwarding function, the tracker arriving, the timers.
NextPoll ==
  \/ InitEntrolytics(TaggedTransformConfig)
  \/ InstallTracker
  \/ \E id \in 1..MaxCalls : Tick(id)
  \/ TrackEvent("click", Some("variant" :> "hero"))
  \/ TrackRevenue("purchase", "99.99", Null, Some("productId" :> "p1"))
  \/ TrackOutboundLink("https://ext.example", Some("placement" :> "sidebar"))
  \/ Identify("plan" :> "enterprise")
  \/ IdentifyUser("u1", Some("email" :> "a@b.c"))
  \/ TrackPageView(Some("/custom-path"), Null)

SpecPoll == InitBrowser /\ [][NextPoll]_vars

\* A timer set by setTimeout fires.
SpecPollFair ==
  SpecPoll /\ \A id \in 1..MaxCalls : WF_vars(Tick(id))

\* Tags: the calls that attach the current tag, with setTag in between.
NextTag ==
  \/ InitEntrolytics(PlainConfig)
  \/ \E tag \in TrackTags : SetTag(tag)
  \/ InstallTracker
  \/ \E id \in 1..MaxCalls : Tick(id)
  \/ TrackEvent("click", Null)
  \/ TrackRevenue("purchase", "99.99", Some("USD"), Some("productId" :> "p1"))
  \/ TrackPageView(Some("/custom-path"), Null)

SpecTag == InitBrowser /\ [][NextTag]_vars

\* trackEvent with and without a beforeSend transform and a tag.
NextEvent ==
  \/ \E options \in {TaggedConfig, TransformConfig} : InitEntrolytics(options)
  \/ SetTag("ab-variant-2")
  \/ InstallTracker
  \/ \E id \in 1..MaxCalls : Tick(id)
  \/ \E data \in EventDatas : TrackEvent("click", data)

SpecEvent == InitBrowser /\ [][NextEvent]_vars

\* The page-view watcher and the calls it issues.
Paths == {"/", "/about", "/pricing"}

NextWatch ==
  \/ InitEntrolytics(PlainConfig)
  \/ UsePageView
  \/ Mount
  \/ \E currentPath \in Paths : Emit(currentPath)
  \/ \E currentPath \in Paths : EmitUnobserved(currentPath)
  \/ Destroy
  \/ InstallTracker
  \/ \E id \in 1..MaxCalls : Tick(id)

SpecWatch == InitBrowser /\ [][NextWatch]_vars

\* The trackClick action on one element, and the clicks on that element.
ClickParams ==
  {[event |-> "signup", data |-> Some("plan" :> "pro")],
   [event |-> "cta", data |-> Null]}

NextClick ==
  \/ \E p \in ClickParams : TrackClick(p)
  \/ \E newParams \in ClickParams : Update(newParams)
  \/ DestroyAction
  \/ Click
  \/ InstallTracker
  \/ \E id \in 1..MaxCalls : Tick(id)

SpecClick == InitBrowser /\ [][NextClick]_vars

\* Revenue events: amounts, currencies and extra data, with and without a tag.
RevenueDatas ==
  {Null, Some("productId" :> "p1"),
   Some("revenue" :> "1" @@ "currency" :> "XXX" @@ "tag" :> "old")}

NextRevenue ==
  \/ \E tag \in TrackTags : SetTag(tag)
  \/ InstallTracker
  \/ \E id \in 1..MaxCalls : Tick(id)
  \/ \E currency \in {Null, Some("EUR")}, data \in RevenueDatas :
       TrackRevenue("purchase", "99.99", currency, data)

SpecRevenue == InitBrowser /\ [][NextRevenue]_vars

\* A non-browser environment (server-side rendering, a test runner) in which
\* a window may appear later.
WindowAppears ==
  /\ ~hasWindow
  /\ hasWindow' = TRUE
  /\ UNCHANGED <<tracker, document, storeVars, moduleVars, callVars,
                 watchVars, clickVars, lastInit>>

InitServer == Init /\ ~hasWindow

EmptyIdConfig == [websiteId |-> ""]

NextServer ==
  \/ \E options \in {PlainConfig, EmptyIdConfig} : InitEntrolytics(options)
  \/ SetTag("ab-variant-2")
  \/ WindowAppears
  \/ InstallTracker
  \/ \E id \in 1..MaxCalls : Tick(id)
  \/ TrackEvent("click", Some("variant" :> "hero"))
  \/ TrackRevenue("purchase", "99.99", Null, Some("productId" :> "p1"))
  \/ TrackOutboundLink("https://ext.example", Some("placement" :> "sidebar"))
  \/ Identify("plan" :> "enterprise")
  \/ IdentifyUser("u1", Some("email" :> "a@b.c"))
  \/ TrackPageView(Some("/custom-path"), Null)

SpecServer == InitServer /\ [][NextServer]_vars

\* Ordering: several calls in flight while the tracker arrives.
NextOrder ==
  \/ InstallTracker
  \/ \E id \in 1..MaxOrderCalls : Tick(id)
  \/ /\ WaitForTrackerWithin(MaxOrderCalls, "identify",
                              [data |-> ("plan" :> "enterprise")])
     /\ UNCHANGED <<watchVars, clickVars>>
  \/ /\ WaitForTrackerWithin(MaxOrderCalls, "trackPageView",
                              [url |-> Some("/custom-path"),
                               referrer |-> Null])
     /\ UNCHANGED <<watchVars, clickVars>>

SpecOrder == InitBrowser /\ [][NextOrder]_vars

\* ------------------------------------------------------- the whole bridge
Next ==
  \/ NextInit \/ NextPoll \/ NextTag \/ NextEvent \/ NextWatch
  \/ NextClick \/ NextRevenue \/ NextServer \/ NextOrder

Spec == Init /\ [][Next]_vars

\* The browser delivers the load event of a script element it has fetched.
SpecInitFair ==
  SpecInit /\ WF_vars(\E i \in 1..Len(document) : ScriptOnload(i))

\* ------------------------------------------------------------------ claims
\* the most recent initEntrolytics call was made in a browser environment
\* while the initialization flag was still false
FirstInitCall ==
  /\ lastInit.n > 0
  /\ lastInit.browser
  /\ ~lastInit.wasInitialized

\* a configuration whose websiteId is missing or empty
NoWebsiteId(options) ==
  "websiteId" \notin DOMAIN options \/ options.websiteId = ""

\* the first initEntrolytics call that ran in a browser had a websiteId
ValidInitHappened ==
  currentOptions # Null /\ ~NoWebsiteId(currentOptions[1])

\* C1: an initEntrolytics call that raises the configuration error leaves
\* the bridge uninitialized: the initialization flag, the stored options and
\* the current tag are unchanged by it.
C1_NoPartialInit ==
  [][ (lastInit'.n = lastInit.n + 1 /\ lastInit'.raised = "ConfigError")
      => UNCHANGED <<initialized, currentOptions, currentTag>> ]_vars

\* C2: an initEntrolytics call made once the bridge is initialized changes
\* neither the stored options, the current tag, the document nor the
\* indicators; the document never holds two script elements with the fixed
\* id; isLoaded changes from false to true at most once, and once a valid
\* initialization has put or found the script element it does so exactly once.
C2_FirstCallWins ==
  /\ [][ (lastInit'.n = lastInit.n + 1 /\ hasWindow /\ initialized)
          => UNCHANGED <<moduleVars, document, isLoaded, isReady>> ]_vars
  /\ [](ScriptCount(document) <= 1 /\ loadFlips <= 1)
  /\ []((ValidInitHappened /\ ScriptCount(document) > 0)
          => <>(isLoaded /\ loadFlips = 1))

\* C2 witness: a second valid call with another configuration, made after a
\* setTag, has run and the first configuration is still the stored one.
C2_Witness ==
  /\ lastInit.n > 1
  /\ lastInit.browser
  /\ lastInit.wasInitialized
  /\ ~NoWebsiteId(lastInit.options)
  /\ ValidInitHappened
  /\ currentOptions # Some(lastInit.options)
  /\ currentTag = Some("ab-variant-2")
  /\ loadFlips = 1

\* C9: when the first initEntrolytics call of a browser page has a
\* websiteId and finds a script element with the fixed id, both indicators
\* are true after it and it appended nothing; the document never holds a
\* second element with that id.
C9_ExistingScriptReused ==
  /\ (FirstInitCall /\ ~NoWebsiteId(lastInit.options) /\ lastInit.hadScript)
       => (isLoaded /\ isReady /\ document = <<PreExistingScript>>)
  /\ ScriptCount(document) <= 1

C9_Witness ==
  /\ FirstInitCall
  /\ ~NoWebsiteId(lastInit.options)
  /\ lastInit.hadScript
  /\ isLoaded

\* C10: an initEntrolytics call with a missing or empty websiteId on a bridge
\* whose initialization flag is false raises the configuration error and
\* appends no script element; isLoaded is false, and no element was appended,
\* in every state in which no valid initialization has happened.
C10_EmptyIdRaises ==
  /\ (FirstInitCall /\ NoWebsiteId(lastInit.options))
       => (lastInit.raised = "ConfigError" /\ ~isLoaded)
  /\ ~ValidInitHappened
       => (~isLoaded /\ \A i \in 1..Len(document) : ~document[i].onload)

C10_Witness ==
  /\ FirstInitCall
  /\ lastInit.options = [websiteId |-> "", tag |-> "ab2"]
  /\ lastInit.raised = "ConfigError"
  /\ document = <<>>
\* the number of invocations of window.entrolytics made for call id
Sends(id) == Cardinality({i \in 1..Len(sent) : sent[i].id = id})

\* the tag carried by what invocation e passes to window.entrolytics
TagOf(e) ==
  IF e.inv.obj # Null /\ "tag" \in DOMAIN e.inv.obj[1]
    THEN Some(e.inv.obj[1].tag) ELSE Null

C5_EventCarriesTag ==
  \A i \in 1..Len(sent) :
    LET c == calls[sent[i].id]
    IN  (c.kind = "trackEvent" /\ Truthy(c.issueTag))
          => TagOf(sent[i]) = c.issueTag

\* C6: a trackRevenue or trackPageView call is forwarded with the tag that was
\* current when it was issued, and a trackEvent call never with another tag,
\* whatever setTag calls run while the call is polling for the tracker.
C6_TagNotRetroactive ==
  \A i \in 1..Len(sent) :
    LET c == calls[sent[i].id]
    IN  /\ c.kind \in {"trackRevenue", "trackPageView"} =>
             TagOf(sent[i]) = IF Truthy(c.issueTag) THEN c.issueTag ELSE Null
        /\ c.kind = "trackEvent" => TagOf(sent[i]) \in {Null, c.issueTag}

\* C7: when the beforeSend transform returned a payload that differs from the
\* one built from the call's event name and data, the tracker receives the
\* returned payload's name and data.
C7_TransformedForwarded ==
  \A i \in 1..Len(sent) :
    LET c == calls[sent[i].id]
    IN  (/\ c.kind = "trackEvent"
         /\ c.bs # "none"
         /\ c.xf # Null
         /\ c.xf # Some([name |-> c.args.name, data |-> c.args.data]))
          => /\ sent[i].inv.name = Some(c.xf[1].name)
             /\ sent[i].inv.obj = c.xf[1].data

\* C8: a trackEvent call whose beforeSend transform returned null makes no
\* invocation of the tracker, whether its callback ran at once or on a retry
\* tick and whether or not a tag is set.
C8_NullSuppresses ==
  \A id \in 1..Len(calls) :
    (calls[id].kind = "trackEvent" /\ calls[id].bs = "null")
      => (calls[id].status = "done" /\ Sends(id) = 0)

\* C8 witness: the transform returned null on a retry tick, with a tag set.
C8_Witness ==
  \E id \in 1..Len(calls) :
    /\ calls[id].bs = "null"
    /\ calls[id].ticks >= 2
    /\ Truthy(currentTag)
    /\ Truthy(calls[id].issueTag)
\* C4: the first emission after mount issues no trackPageView call; a later
\* emission whose path differs from the last-seen path issues exactly one,
\* with that path; an emission repeating the last-seen path issues none.
C4_FirstEmissionSuppressed ==
  emission.n > 0 =>
    emission.issued =
      IF emission.n > 1 /\ emission.path # emission.prev
        THEN <<Some(emission.path)>> ELSE <<>>

\* what trackEvent is handed when the handler reads the params p
BoundArgs(p) == [name |-> p[1].event, data |-> p[1].data]

\* C11: a click on the element while the action is attached (after the
\* attach, before the destroy) invokes trackEvent exactly once, with the
\* event name and data bound at that moment, and that invocation is one new
\* trackEvent call with those arguments; a click before the attach or after
\* the destroy invokes nothing and issues no call.
C11_ClickWhileAttached ==
  [][ click'.n = click.n + 1 =>
        IF action = "attached"
          THEN /\ click'.invoked = <<BoundArgs(supplied.params)>>
               /\ Len(calls') = Len(calls) + 1
               /\ calls'[Len(calls')].kind = "trackEvent"
               /\ calls'[Len(calls')].args = BoundArgs(supplied.params)
          ELSE /\ click'.invoked = <<>>
               /\ calls' = calls
               /\ sent' = sent ]_vars

\* a click while attached issued a call, and a later click, made after the
\* destroy, has been handled
C11_Witness ==
  /\ click.n = 2
  /\ click.action = "destroyed"
  /\ click.invoked = <<>>
  /\ Len(calls) = 1
  /\ calls[1].kind = "trackEvent"

C13_TrackingNeverRaises ==
  \A id \in 1..Len(calls) : ~calls[id].threw

\* the payload the claim describes for the trackRevenue arguments a when the
\* current tag is tag: the extra data, overlaid with the amount and the
\* currency (USD when none was passed), and the tag when one is set
RevenuePayload(a, tag) ==
  LET extra == IF a.data = Null THEN {} ELSE DOMAIN a.data[1]
      tagged == tag # Null /\ tag[1] # ""
      keys == extra \cup {"revenue", "currency"}
                    \cup (IF tagged THEN {"tag"} ELSE {})
  IN  [k \in keys |->
         IF k = "tag" /\ tagged THEN tag[1]
         ELSE IF k = "revenue" THEN a.revenue
         ELSE IF k = "currency"
           THEN (IF a.given = Null THEN "USD" ELSE a.given[1])
         ELSE a.data[1][k]]

\* C14: whenever a trackRevenue call is forwarded, the tracker receives
\* exactly one track invocation, under the event name passed, whose payload
\* is the extra data merged with revenue = the amount and currency = the
\* currency passed (USD when omitted), these two winning over same-named
\* keys of the extra data, plus tag = the current tag exactly when a
\* (non-empty) current tag is set at that moment.
C14_RevenuePayload ==
  [][ \A id \in 1..Len(calls') :
        (calls'[id].kind = "trackRevenue" /\ calls'[id].status = "done"
           /\ (id > Len(calls) \/ calls[id].status # "done"))
        => sent' = Append(sent,
             [id |-> id,
              inv |-> [fn |-> "track", form |-> "positional",
                       name |-> <<calls'[id].args.name>>,
                       obj |-> <<RevenuePayload(calls'[id].args,
                                                currentTag)>>]]) ]_vars

\* a revenue event with no currency argument, whose extra data carries its
\* own revenue, currency and tag keys, was forwarded while a tag was set
C14_Witness ==
  /\ Truthy(currentTag)
  /\ \E i \in 1..Len(sent) :
       /\ calls[sent[i].id].kind = "trackRevenue"
       /\ calls[sent[i].id].args.given = Null
       /\ calls[sent[i].id].args.data # Null
       /\ "revenue" \in DOMAIN calls[sent[i].id].args.data[1]
       /\ sent[i].inv.obj[1].revenue = "99.99"
       /\ sent[i].inv.obj[1].currency = "USD"
       /\ sent[i].inv.obj[1].tag = currentTag[1]

\* C15: the watcher subscribes to the navigation source exactly once, when
\* it is mounted, and unsubscribes exactly once, when its scope is torn
\* down; from the teardown on no emission of the source reaches the
\* watcher, so none issues a trackPageView call.
C15_SubscriptionSymmetric ==
  /\ [](/\ watcher \in {"idle", "registered"} =>
             subscription = [active |-> 0, subscribes |-> 0,
                             unsubscribes |-> 0]
        /\ watcher = "subscribed" =>
             subscription = [active |-> 1, subscribes |-> 1,
                             unsubscribes |-> 0]
        /\ watcher = "destroyed" =>
             subscription = [active |-> 0, subscribes |-> 1,
                             unsubscribes |-> 1])
  /\ [][ watcher = "destroyed"
          => /\ Len(calls') = Len(calls)
             /\ emission' = emission
             /\ lastPath' = lastPath ]_vars

\* after the teardown the source has emitted a path the watcher had not
\* seen, while a tracking call could still have been issued
C15_Witness ==
  /\ watcher = "destroyed"
  /\ unobserved > 0
  /\ pagePath # lastPath
  /\ Len(calls) < MaxCalls

\* option k of o was given and is the boolean v
Given(o, k, v) == k \in DOMAIN o /\ o[k] = v

\* C16: the script element initEntrolytics appends carries the fixed id and
\* the website id, carries each optional data attribute exactly when its
\* option deviates from the default (auto-track only when false,
\* do-not-track only when true, the comma-joined domains only when the list
\* is non-empty, the tag only when a non-empty tag is given, exclude-search
\* and exclude-hash only when enabled) and nothing else, and its src is the
\* host (the default host when none is given) without one trailing slash,
\* followed by the edge path unless useEdgeRuntime is false, and then by
\* the standard path.
C16_ScriptAttributes ==
  [][ Len(document') = Len(document) + 1 =>
        LET o == lastInit'.options
            e == document'[Len(document')]
            ds == e.dataset
            h == IF "host" \in DOMAIN o THEN o.host
                 ELSE <<"https://cloud.entrolytics.click">>
            stripped == IF h[Len(h)] = "/"
                          THEN [i \in 1..(Len(h) - 1) |-> h[i]] ELSE h
            path == IF Given(o, "useEdgeRuntime", FALSE)
                      THEN "/script.js" ELSE "/script-edge.js"
        IN  /\ e.id = "entrolytics-script"
            /\ e.defer
            /\ e.src = stripped \o <<path>>
            /\ DOMAIN ds \subseteq
                 {"websiteId", "autoTrack", "doNotTrack", "domains", "tag",
                  "excludeSearch", "excludeHash"}
            /\ "websiteId" \in DOMAIN ds /\ ds.websiteId = o.websiteId
            /\ "autoTrack" \in DOMAIN ds <=> Given(o, "autoTrack", FALSE)
            /\ "autoTrack" \in DOMAIN ds => ds.autoTrack = "false"
            /\ "doNotTrack" \in DOMAIN ds <=> Given(o, "respectDnt", TRUE)
            /\ "doNotTrack" \in DOMAIN ds => ds.doNotTrack = "true"
            /\ "domains" \in DOMAIN ds <=>
                 ("domains" \in DOMAIN o /\ o.domains # <<>>)
            /\ "domains" \in DOMAIN ds => ds.domains = Join(o.domains, ",")
            /\ "tag" \in DOMAIN ds <=> ("tag" \in DOMAIN o /\ o.tag # "")
            /\ "tag" \in DOMAIN ds => ds.tag = o.tag
            /\ "excludeSearch" \in DOMAIN ds <=>
                 Given(o, "excludeSearch", TRUE)
            /\ "excludeSearch" \in DOMAIN ds => ds.excludeSearch = "true"
            /\ "excludeHash" \in DOMAIN ds <=> Given(o, "excludeHash", TRUE)
            /\ "excludeHash" \in DOMAIN ds => ds.excludeHash = "true" ]_vars

\* the element injected for a configuration in which every option deviates
\* from its default and the host ends in a slash
C16_Witness ==
  \E i \in 1..Len(document) :
    /\ document[i].onload
    /\ document[i].src = <<"https://self.example", "/script.js">>
    /\ document[i].dataset =
         [websiteId |-> "w3", autoTrack |-> "false", doNotTrack |-> "true",
          domains |-> "a.com,b.com", tag |-> "ab1",
          excludeSearch |-> "true", excludeHash |-> "true"]

\* C17: update replaces the bound parameters and does not rebind: while the
\* action is attached its node carries exactly one click listener of it,
\* however many updates were made; a click invokes trackEvent exactly once
\* with the parameters most recently supplied (by the attach or the last
\* update); and the arguments of a call already issued never change, an
\* update made while it is pending included.
C17_UpdateRebindsNothing ==
  /\ [](action = "attached" => listeners = 1)
  /\ [](click.n > 0 /\ click.action = "attached"
          => click.invoked = <<BoundArgs(click.supplied.params)>>)
  /\ [][ \A id \in 1..Len(calls) :
           /\ calls'[id].kind = calls[id].kind
           /\ calls'[id].args = calls[id].args ]_vars
  /\ [][ (click'.n = click.n + 1 /\ action = "attached")
          => calls'[Len(calls')].args = BoundArgs(supplied.params) ]_vars

\* a click made after an update that changed the parameters invoked
\* trackEvent with the new ones; the call issued for it waited for the
\* tracker and was forwarded with them, whatever update came in between
C17_Witness ==
  /\ action = "attached"
  /\ click.n > 0
  /\ click.supplied.updated
  /\ click.invoked = <<[name |-> "cta", data |-> Null]>>
  /\ supplied.params = Some([event |-> "signup",
                             data |-> Some("plan" :> "pro")])
  /\ calls[1].ticks > 0
  /\ Len(sent) = 1
  /\ sent[1].inv.name = Some("cta")

\* C18: a call is forwarded only once it has been issued and only while the
\* tracker is present; beyond that the calls are not ordered: a call issued
\* after the tracker appeared can be forwarded before a call issued earlier
\* that still waits for its next retry tick (the witness).
C18_ForwardedOnlyWithTracker ==
  /\ [](\A i \in 1..Len(sent) : sent[i].id \in 1..Len(calls))
  /\ [](~tracker => sent = <<>>)
  /\ [][ Len(sent') > Len(sent)
          => /\ tracker
             /\ \A i \in (Len(sent) + 1)..Len(sent') :
                  /\ sent'[i].id \in 1..Len(calls')
                  /\ calls'[sent'[i].id].status = "done" ]_vars

\* the second call issued has been forwarded while the first, issued before
\* the tracker appeared, is still waiting for its next retry tick
C18_Witness ==
  /\ Len(calls) = 2
  /\ calls[1].status = "pending"
  /\ calls[2].status = "done"
  /\ Len(sent) = 1
  /\ sent[1].id = 2

\* C19: whenever the isReady indicator is true the global tracker object is
\* present (so that a tracking call issued then is forwarded at once).
C19_ReadyMeansTracker ==
  isReady => tracker
====
